---- MODULE Spec2Model ----
(***************************************************************************)
(* State-machine model of the CRM core of gaud-integrations:               *)
(*   CrmAccountManager  (account registry + adapter registry),             *)
(*   PipedriveAdapter   (reads and mutations over the client's envelope),  *)
(*   SyncService        (bulk / single-lead sync bookkeeping),             *)
(*   WebhookHandler     (webhook -> audit-logged event -> re-sync).        *)
(* Async methods are split at their suspension points (the awaited         *)
(* backend call); everything between two suspension points is one action.  *)
(***************************************************************************)
EXTENDS Integers, Sequences, FiniteSets, TLC

VARIABLES
  now,           \* wall clock read by new Date() / Date.now(), in minutes
  accounts,      \* CrmAccountManager.accounts : Map<string, CrmAccount>
  adapters,      \* CrmAccountManager.adapters : Map<string, ICrmAdapter>
  nextUuid,      \* uuidv4() draws made by the account manager
  nextInst,      \* adapter objects constructed so far (object identity)
  lastOp,        \* outcome of the last synchronous manager call
  webhookLogs,   \* WebhookHandler.webhookLogs, in insertion order
  nextEventId,   \* uuidv4() draws made by the webhook handler
  whCalls,       \* handleWebhook calls: suspended, or ended with their result
  purged,        \* the last clearOldLogs call and the count it returned
  syncStatus,    \* SyncService.syncStatus : Map<string, SyncStatus>
  lastSyncTime,  \* SyncService.lastSyncTime : Map<string, Date>
  syncCalls,     \* syncAccountLeads calls: suspended, or ended with their result
  leadCall,      \* the last SyncService.syncLead call and its outcome
  readCall,      \* the last PipedriveAdapter read call and its outcome
  writeCall      \* the last PipedriveAdapter mutation call and its outcome

mgrVars == <<accounts, adapters, nextUuid, nextInst, lastOp>>
whVars == <<webhookLogs, nextEventId, whCalls, purged>>
syncVars == <<syncStatus, lastSyncTime, syncCalls, leadCall>>
adapterVars == <<readCall, writeCall>>
vars == <<now, mgrVars, whVars, syncVars, adapterVars>>

-----------------------------------------------------------------------------
(* Bounds of the model *)

MaxAccounts == 2
MaxAdapters == 3
MaxTime == 1
MaxRecords == 2
MaxCalls == 2
MaxSyncs == 2
MaxHours == 2
MaxMinutes == 7

-----------------------------------------------------------------------------
(* JavaScript values *)

\* the value of an absent optional property
Undefined == "undefined"

\* JS truthiness of an optional string: undefined and '' are falsy
Truthy(s) == s # Undefined /\ s # ""

\* a || b on optional strings
OrElse(a, b) == IF Truthy(a) THEN a ELSE b

\* Map.prototype.set on a map held as a function
MapSet(m, k, v) == [x \in (DOMAIN m) \cup {k} |-> IF x = k THEN v ELSE m[x]]

\* Map.prototype.delete
MapDelete(m, k) == [x \in (DOMAIN m) \ {k} |-> m[x]]

\* Map.prototype.has
MapHas(m, k) == k \in DOMAIN m

EmptyMap == [x \in {} |-> x]

-----------------------------------------------------------------------------
(* Input alphabets *)

CrmTypes == {"pipedrive", "hubspot", "salesforce", "zoho"}

\* account ids a caller may pass: every id uuidv4 can hand out, and 0, which
\* it never hands out
AccountIds == 0..MaxAccounts

\* CrmAccountConfig values passed to registerAccount: every CRM type, with
\* the domain absent, empty or given
RegisterConfigs ==
  [type : CrmTypes, displayName : {"n1"}, apiToken : {"t1"},
   domain : {Undefined, "", "d1"}, extraConfig : {Undefined}]

\* the configs of an account's life: a type with an adapter and one without
ManagerConfigs ==
  [type : {"pipedrive", "hubspot"}, displayName : {"n1"}, apiToken : {"t1"},
   domain : {Undefined, "d1"}, extraConfig : {Undefined}]

\* Partial<CrmAccountConfig> values passed to updateAccount: a new token, a
\* new domain, both or neither
ManagerUpdates ==
  [displayName : {Undefined}, apiToken : {Undefined, "t2"},
   domain : {Undefined, "d2"}, extraConfig : {Undefined}]

\* every shape of Partial<CrmAccountConfig>: each property absent or given,
\* the token also given as the empty string
UpdateShapes ==
  [displayName : {Undefined, "n2"}, apiToken : {Undefined, "", "t2"},
   domain : {Undefined, "d2"}, extraConfig : {Undefined, "x2"}]

-----------------------------------------------------------------------------
(* CrmAccountManager *)

\* new PipedriveAdapter(apiToken, companyDomain): the adapter keeps the pair
\* in its PipedriveApiClient; inst is the identity of the constructed object
PipedriveAdapter(apiToken, companyDomain, inst) ==
  [crmType |-> "pipedrive", apiToken |-> apiToken,
   companyDomain |-> companyDomain, inst |-> inst]

NoAdapter == PipedriveAdapter(Undefined, Undefined, 0)

\* createAdapter without the domain check
createAdapter_NoDomainCheck(config, inst) ==
  IF config.type = "pipedrive"
    THEN [threw |-> FALSE, error |-> Undefined,
          adapter |-> PipedriveAdapter(config.apiToken, config.domain, inst)]
    ELSE [threw |-> TRUE, error |-> "Unsupported CRM type: " \o config.type,
          adapter |-> NoAdapter]

\* createAdapter with no case for the adapters that are still to come
createAdapter_PipedriveOnly(config, inst) ==
  IF config.type = "pipedrive" /\ Truthy(config.domain)
    THEN [threw |-> FALSE, error |-> Undefined,
          adapter |-> PipedriveAdapter(config.apiToken, config.domain, inst)]
  ELSE IF config.type = "pipedrive"
    THEN [threw |-> TRUE, error |-> "Pipedrive domain is required",
          adapter |-> NoAdapter]
  ELSE [threw |-> TRUE, error |-> "Unsupported CRM type: " \o config.type,
        adapter |-> NoAdapter]

\* createAdapter(config): the adapter, or the Error it throws
createAdapter(config, inst) ==
  CASE config.type = "pipedrive" ->
         IF ~Truthy(config.domain)
           THEN [threw |-> TRUE, error |-> "Pipedrive domain is required",
                 adapter |-> NoAdapter]
           ELSE [threw |-> FALSE, error |-> Undefined,
                 adapter |-> PipedriveAdapter(config.apiToken, config.domain, inst)]
    [] config.type = "hubspot" ->
         [threw |-> TRUE, error |-> "HubSpot adapter not yet implemented",
          adapter |-> NoAdapter]
    [] config.type = "salesforce" ->
         [threw |-> TRUE, error |-> "Salesforce adapter not yet implemented",
          adapter |-> NoAdapter]
    [] OTHER ->
         [threw |-> TRUE, error |-> "Unsupported CRM type: " \o config.type,
          adapter |-> NoAdapter]

getAdapter(accountId) ==
  IF MapHas(adapters, accountId) THEN adapters[accountId] ELSE NoAdapter

\* the result of a manager call: the id of the account registerAccount made
\* (0 for the void methods), and the message of the Error it threw, if any
OpResult(op, accountId, r) ==
  [op |-> op, accountId |-> accountId, threw |-> r.threw, error |-> r.error]

Returned == [threw |-> FALSE, error |-> Undefined]

registerAccount(config) ==
  /\ nextUuid <= MaxAccounts
  /\ nextInst <= MaxAdapters
  /\ LET accountId == nextUuid
         account == [id |-> accountId, type |-> config.type,
                     displayName |-> config.displayName,
                     apiToken |-> config.apiToken, domain |-> config.domain,
                     extraConfig |-> config.extraConfig, isActive |-> TRUE,
                     createdAt |-> now, updatedAt |-> now]
         r == createAdapter(config, nextInst)
     IN /\ nextUuid' = nextUuid + 1
        /\ accounts' = MapSet(accounts, accountId, account)
        /\ adapters' = IF r.threw THEN adapters
                       ELSE MapSet(adapters, accountId, r.adapter)
        /\ nextInst' = IF r.threw THEN nextInst ELSE nextInst + 1
        /\ lastOp' = OpResult("registerAccount", accountId, r)
  /\ UNCHANGED <<now, whVars, syncVars, adapterVars>>

\* an activateAccount that flips the flag
activateAccount_Toggle(accountId) ==
  /\ accounts' = IF MapHas(accounts, accountId)
                 THEN [accounts EXCEPT ![accountId].isActive = ~@,
                                       ![accountId].updatedAt = now]
                 ELSE accounts
  /\ lastOp' = OpResult("activateAccount", 0, Returned)
  /\ UNCHANGED <<now, adapters, nextUuid, nextInst, whVars, syncVars, adapterVars>>

activateAccount(accountId) ==
  /\ accounts' = IF MapHas(accounts, accountId)
                 THEN [accounts EXCEPT ![accountId].isActive = TRUE,
                                       ![accountId].updatedAt = now]
                 ELSE accounts
  /\ lastOp' = OpResult("activateAccount", 0, Returned)
  /\ UNCHANGED <<now, adapters, nextUuid, nextInst, whVars, syncVars, adapterVars>>

deactivateAccount(accountId) ==
  /\ accounts' = IF MapHas(accounts, accountId)
                 THEN [accounts EXCEPT ![accountId].isActive = FALSE,
                                       ![accountId].updatedAt = now]
                 ELSE accounts
  /\ lastOp' = OpResult("deactivateAccount", 0, Returned)
  /\ UNCHANGED <<now, adapters, nextUuid, nextInst, whVars, syncVars, adapterVars>>

deleteAccount(accountId) ==
  /\ accounts' = MapDelete(accounts, accountId)
  /\ adapters' = MapDelete(adapters, accountId)
  /\ lastOp' = OpResult("deleteAccount", 0, Returned)
  /\ UNCHANGED <<now, nextUuid, nextInst, whVars, syncVars, adapterVars>>

\* the account after updateAccount's four guarded assignments and the
\* updatedAt stamp
MergedAccount(account, updates) ==
  [account EXCEPT
     !.displayName = OrElse(updates.displayName, @),
     !.apiToken = OrElse(updates.apiToken, @),
     !.domain = OrElse(updates.domain, @),
     !.extraConfig = OrElse(updates.extraConfig, @),
     !.updatedAt = now]

\* a rebind from the delta alone instead of the merged config
RebindConfig_DeltaOnly(account, updates) ==
  [type |-> account.type, displayName |-> account.displayName,
   apiToken |-> updates.apiToken, domain |-> updates.domain,
   extraConfig |-> account.extraConfig]

\* the config updateAccount hands to createAdapter
RebindConfig(account, updates) ==
  [type |-> account.type, displayName |-> account.displayName,
   apiToken |-> OrElse(updates.apiToken, account.apiToken),
   domain |-> OrElse(updates.domain, account.domain),
   extraConfig |-> account.extraConfig]

\* a rebind on a new token only
Rebinds_TokenOnly(updates) == Truthy(updates.apiToken)

\* whether updateAccount reaches its createAdapter call
Rebinds(updates) == Truthy(updates.apiToken) \/ Truthy(updates.domain)

\* an updateAccount that binds an adapter for an id it does not know
updateAccount_Upsert(accountId, updates) ==
  /\ Rebinds(updates) => nextInst <= MaxAdapters
  /\ IF ~MapHas(accounts, accountId)
       THEN /\ lastOp' = OpResult("updateAccount", 0, Returned)
            /\ adapters' = IF Rebinds(updates)
                           THEN MapSet(adapters, accountId,
                                       PipedriveAdapter(updates.apiToken, updates.domain, nextInst))
                           ELSE adapters
            /\ nextInst' = IF Rebinds(updates) THEN nextInst + 1 ELSE nextInst
            /\ UNCHANGED accounts
       ELSE LET account == MergedAccount(accounts[accountId], updates)
                r == IF Rebinds(updates)
                       THEN createAdapter(RebindConfig(account, updates), nextInst)
                       ELSE Returned
            IN /\ accounts' = [accounts EXCEPT ![accountId] = account]
               /\ adapters' = IF Rebinds(updates) /\ ~r.threw
                              THEN MapSet(adapters, accountId, r.adapter)
                              ELSE adapters
               /\ nextInst' = IF Rebinds(updates) /\ ~r.threw
                              THEN nextInst + 1 ELSE nextInst
               /\ lastOp' = OpResult("updateAccount", 0, r)
  /\ UNCHANGED <<now, nextUuid, whVars, syncVars, adapterVars>>

updateAccount(accountId, updates) ==
  /\ Rebinds(updates) => nextInst <= MaxAdapters
  /\ IF ~MapHas(accounts, accountId)
       THEN /\ lastOp' = OpResult("updateAccount", 0, Returned)
            /\ UNCHANGED <<accounts, adapters, nextInst>>
       ELSE LET account == MergedAccount(accounts[accountId], updates)
                r == IF Rebinds(updates)
                       THEN createAdapter(RebindConfig(account, updates), nextInst)
                       ELSE Returned
            IN /\ accounts' = [accounts EXCEPT ![accountId] = account]
               /\ adapters' = IF Rebinds(updates) /\ ~r.threw
                              THEN MapSet(adapters, accountId, r.adapter)
                              ELSE adapters
               /\ nextInst' = IF Rebinds(updates) /\ ~r.threw
                              THEN nextInst + 1 ELSE nextInst
               /\ lastOp' = OpResult("updateAccount", 0, r)
  /\ UNCHANGED <<now, nextUuid, whVars, syncVars, adapterVars>>

\* time passes between two calls
Tick ==
  /\ now < MaxTime
  /\ now' = now + 1
  /\ UNCHANGED <<mgrVars, whVars, syncVars, adapterVars>>

\* `minutes` minutes pass between two calls, up to the minute `until`
Elapse(minutes, until) ==
  /\ now + minutes <= until
  /\ now' = now + minutes
  /\ UNCHANGED <<mgrVars, whVars, syncVars, adapterVars>>

\* getAllAccounts(): Array.from(this.accounts.values()), as a set
getAllAccounts == {accounts[a] : a \in DOMAIN accounts}

\* a filter that lets every account through
getActiveAccounts_Unfiltered == getAllAccounts

\* getActiveAccounts(): the accounts the filter on isActive lets through
getActiveAccounts == {acc \in getAllAccounts : acc.isActive}

-----------------------------------------------------------------------------
(* PipedriveApiClient envelopes and the PipedriveAdapter read paths *)

\* an Error object: its class and message
Exception(name, message) == [name |-> name, message |-> message]

NoException == Exception(Undefined, Undefined)

\* String(error) of an Error object
StringOf(error) == error.name \o ": " \o error.message

\* raw records of the backend: a property is present ("7") or absent
Deals == [id : {Undefined, "7"}, pipeline_id : {Undefined, "1"},
          stage_id : {Undefined, "2"}]

GoodDeal == [id |-> "7", pipeline_id |-> "1", stage_id |-> "2"]
BadDeal == [id |-> "7", pipeline_id |-> Undefined, stage_id |-> "2"]

\* records of the other list endpoints (pipelines, stages, fields): the
\* mapping reads their id
Items == [id : {Undefined, "7"}]

RECURSIVE SeqsUpTo(_, _)
SeqsUpTo(S, n) ==
  IF n = 0 THEN {<<>>}
  ELSE LET shorter == SeqsUpTo(S, n - 1)
       IN shorter \cup {Append(q, x) : q \in {r \in shorter : Len(r) = n - 1}, x \in S}

\* ApiResponse<any[]> as the client hands it to the adapter: an HTTP failure
\* is already folded into success = false by the client's own catch
ListEnvelopes(S) ==
  [success : BOOLEAN, isArray : BOOLEAN, data : SeqsUpTo(S, MaxRecords)]

\* ApiResponse<any> of getDeal
DealEnvelopes(S) == [success : BOOLEAN, hasData : BOOLEAN, data : S]

\* mapPipedriveDealToLead: deal.id.toString(), deal.pipeline_id.toString() and
\* deal.stage_id.toString() raise a TypeError on an absent property
DealMaps(deal) ==
  deal.id # Undefined /\ deal.pipeline_id # Undefined /\ deal.stage_id # Undefined

mapPipedriveDealToLead(deal, accountId) ==
  [id |-> "pipedrive-" \o deal.id, externalId |-> deal.id,
   crmAccountId |-> accountId, pipelineId |-> deal.pipeline_id,
   stageId |-> deal.stage_id, crmType |-> "pipedrive"]

ToStringTypeError ==
  Exception("TypeError", "Cannot read properties of undefined (reading 'toString')")

\* the outcome of an async adapter method: the value it resolves to, or the
\* exception it rejects with
Resolve(value) == [threw |-> FALSE, error |-> NoException, value |-> value]
Reject(error) == [threw |-> TRUE, error |-> error, value |-> <<>>]

MapDeals(data, accountId) ==
  [i \in 1..Len(data) |-> mapPipedriveDealToLead(data[i], accountId)]

\* PipedriveAdapter.getLeads, given the envelope of apiClient.getDeals
getLeads(accountId, response) ==
  IF ~response.success \/ ~response.isArray THEN Resolve(<<>>)
  ELSE IF \E i \in 1..Len(response.data) : ~DealMaps(response.data[i])
    THEN Reject(ToStringTypeError)
    ELSE Resolve(MapDeals(response.data, accountId))

\* the list mapping shared by getPipelines, getStages and getFields: each
\* reads id.toString() of every record inside the method's try block
ItemMaps(item) == item.id # Undefined

MapItems(data) == [i \in 1..Len(data) |-> [id |-> data[i].id]]

\* PipedriveAdapter.getPipelines / getStages / getFields, given the envelope
\* of the matching client call: the catch returns []
getList(response) ==
  IF ~response.success \/ ~response.isArray THEN Resolve(<<>>)
  ELSE IF \E i \in 1..Len(response.data) : ~ItemMaps(response.data[i])
    THEN Resolve(<<>>)
    ELSE Resolve(MapItems(response.data))

\* PipedriveAdapter.getLead (and syncLead, which delegates to it), given the
\* envelope of apiClient.getDeal
getLead(accountId, leadId, response) ==
  IF ~response.success \/ ~response.hasData
    THEN Reject(Exception("Error", "Lead " \o leadId \o " not found"))
  ELSE IF ~DealMaps(response.data) THEN Reject(ToStringTypeError)
  ELSE Resolve(<<mapPipedriveDealToLead(response.data, accountId)>>)

ReadMethods == {"getLeads", "getPipelines", "getStages", "getFields"}

\* one read call on a PipedriveAdapter with the backend answering `response`
AdapterRead(method, accountId, response) ==
  /\ readCall' = [method |-> method, accountId |-> accountId,
                  response |-> response,
                  outcome |-> IF method = "getLeads"
                              THEN getLeads(accountId, response)
                              ELSE getList(response)]
  /\ UNCHANGED <<now, mgrVars, whVars, syncVars, writeCall>>

\* CreateLeadInput as createLead reads it: whether data.email || data.phone
\* is truthy, and whether data.companyName is
CreateLeadInputs == [hasContact : BOOLEAN, hasCompany : BOOLEAN]

NoLeadInput == [hasContact |-> FALSE, hasCompany |-> FALSE]

\* ApiResponse<any[]> of searchOrganizations: found tells data.length > 0
SearchEnvelopes == [success : BOOLEAN, isArray : BOOLEAN, found : BOOLEAN]

\* ApiResponse<any> of createOrganization and createPerson
RecordEnvelopes == [success : BOOLEAN, hasData : BOOLEAN]

NoSearch == [success |-> FALSE, isArray |-> FALSE, found |-> FALSE]
NoRecord == [success |-> FALSE, hasData |-> FALSE]

\* getOrCreateOrganization: the id of the organization found or created, or
\* undefined; its own catch returns undefined
getOrCreateOrganization(searchResponse, createResponse) ==
  IF searchResponse.success /\ searchResponse.isArray /\ searchResponse.found
    THEN "org-found"
  ELSE IF createResponse.success /\ createResponse.hasData THEN "org-created"
  ELSE Undefined

PropertyTypeError(property) ==
  Exception("TypeError",
            "Cannot read properties of undefined (reading '" \o property \o "')")

\* the body sent to createPerson and the person_id then sent to createDeal
CreateLeadRequests(data, searchResponse, createResponse, personResponse) ==
  [org_id |-> IF data.hasContact /\ data.hasCompany
                THEN getOrCreateOrganization(searchResponse, createResponse)
                ELSE Undefined,
   person_id |-> IF data.hasContact /\ personResponse.success /\ personResponse.hasData
                   THEN "person" ELSE Undefined]

\* `return this.mapPipedriveDealToLead(response.data, accountId)` of a
\* mutation: the mapper reads deal.person_id first
MapDeal(response, accountId) ==
  IF ~response.hasData THEN Reject(PropertyTypeError("person_id"))
  ELSE IF ~DealMaps(response.data) THEN Reject(ToStringTypeError)
  ELSE Resolve(<<mapPipedriveDealToLead(response.data, accountId)>>)

\* a createLead that gives up when the contact cannot be created
createLead_PersonRequired(accountId, data, searchResponse, createResponse, personResponse, dealResponse) ==
  IF data.hasContact /\ ~(personResponse.success /\ personResponse.hasData)
    THEN Reject(Exception("Error", "Failed to create lead"))
  ELSE IF ~dealResponse.success
    THEN Reject(Exception("Error", "Failed to create lead"))
  ELSE MapDeal(dealResponse, accountId)

\* PipedriveAdapter.createLead, given the envelopes of searchOrganizations,
\* createOrganization, createPerson and createDeal
createLead(accountId, data, searchResponse, createResponse, personResponse, dealResponse) ==
  IF data.hasContact /\ personResponse.success /\ ~personResponse.hasData
    THEN Reject(PropertyTypeError("id"))
  ELSE IF ~dealResponse.success
    THEN Reject(Exception("Error", "Failed to create lead"))
  ELSE MapDeal(dealResponse, accountId)

\* PipedriveAdapter.updateLead, given the envelope of updateDeal
updateLead(accountId, response) ==
  IF ~response.success THEN Reject(Exception("Error", "Failed to update lead"))
  ELSE MapDeal(response, accountId)

\* PipedriveAdapter.moveLead, given the envelope of updateDeal
moveLead(accountId, response) ==
  IF ~response.success THEN Reject(Exception("Error", "Failed to move lead"))
  ELSE MapDeal(response, accountId)

\* PipedriveAdapter.deleteLead, given the envelope of deleteDeal
deleteLead(response) ==
  IF ~response.success THEN Reject(Exception("Error", "Failed to delete lead"))
  ELSE Resolve(<<>>)

WriteMethods == {"createLead", "updateLead", "moveLead", "deleteLead"}

WriteCall(method, accountId, data, searchResponse, createResponse, personResponse, dealResponse, outcome) ==
  [method |-> method, accountId |-> accountId, data |-> data,
   searchResponse |-> searchResponse, createResponse |-> createResponse,
   personResponse |-> personResponse, dealResponse |-> dealResponse,
   request |-> CreateLeadRequests(data, searchResponse, createResponse,
                                  personResponse),
   outcome |-> outcome]

\* one createLead call on a PipedriveAdapter
AdapterCreateLead(accountId, data, searchResponse, createResponse, personResponse, dealResponse) ==
  /\ writeCall' = WriteCall("createLead", accountId, data, searchResponse,
                            createResponse, personResponse, dealResponse,
                            createLead(accountId, data, searchResponse,
                                       createResponse, personResponse,
                                       dealResponse))
  /\ UNCHANGED <<now, mgrVars, whVars, syncVars, readCall>>

\* one updateLead, moveLead or deleteLead call on a PipedriveAdapter
AdapterWrite(method, accountId, response) ==
  /\ method \in WriteMethods \ {"createLead"}
  /\ writeCall' = WriteCall(method, accountId, NoLeadInput, NoSearch, NoRecord,
                            NoRecord, response,
                            CASE method = "updateLead" -> updateLead(accountId, response)
                              [] method = "moveLead" -> moveLead(accountId, response)
                              [] OTHER -> deleteLead(response))
  /\ UNCHANGED <<now, mgrVars, whVars, syncVars, readCall>>

-----------------------------------------------------------------------------
(* SyncService *)

AdapterNotFound(accountId) ==
  Exception("Error", "Adapter not found for account " \o ToString(accountId))

SyncStatusRecord(accountId, lastSyncAt, leadsCount, failedCount, status) ==
  [accountId |-> accountId, lastSyncAt |-> lastSyncAt, leadsCount |-> leadsCount,
   failedCount |-> failedCount, pendingCount |-> 0, status |-> status]

\* a syncAccountLeads call: pc is "getLeads" while it is suspended in
\* adapter.getLeads and "done" once it has returned or thrown; status is its
\* local SyncStatus object (the value it returns), inst the adapter it
\* fetches from, fetched the outcome of adapter.getLeads, threw and error
\* what the call itself threw
SyncCall(accountId, pc, status, inst, fetched, threw, error) ==
  [accountId |-> accountId, pc |-> pc, status |-> status, inst |-> inst,
   fetched |-> fetched, threw |-> threw, error |-> error]

\* a syncAccountLeads that records the missing adapter as a failed sync
syncAccountLeads_RecordsMiss(accountId) ==
  /\ Len(syncCalls) < MaxSyncs
  /\ syncCalls' = Append(syncCalls,
       IF ~MapHas(adapters, accountId)
         THEN SyncCall(accountId, "done",
                       SyncStatusRecord(accountId, now, 0, 0, Undefined), 0,
                       Resolve(<<>>), TRUE, AdapterNotFound(accountId))
         ELSE SyncCall(accountId, "getLeads",
                       SyncStatusRecord(accountId, now, 0, 0, "syncing"),
                       getAdapter(accountId).inst, Resolve(<<>>), FALSE,
                       NoException))
  /\ syncStatus' = IF ~MapHas(adapters, accountId)
                   THEN MapSet(syncStatus, accountId,
                               SyncStatusRecord(accountId, now, 0, 0, "error"))
                   ELSE syncStatus
  /\ UNCHANGED <<now, mgrVars, whVars, lastSyncTime, leadCall, adapterVars>>

\* syncAccountLeads up to its first suspension point
syncAccountLeads(accountId) ==
  /\ Len(syncCalls) < MaxSyncs
  /\ syncCalls' = Append(syncCalls,
       IF ~MapHas(adapters, accountId)
         THEN SyncCall(accountId, "done",
                       SyncStatusRecord(accountId, now, 0, 0, Undefined), 0,
                       Resolve(<<>>), TRUE, AdapterNotFound(accountId))
         ELSE SyncCall(accountId, "getLeads",
                       SyncStatusRecord(accountId, now, 0, 0, "syncing"),
                       getAdapter(accountId).inst, Resolve(<<>>), FALSE,
                       NoException))
  /\ UNCHANGED <<now, mgrVars, whVars, syncStatus, lastSyncTime, leadCall, adapterVars>>

\* a try branch that forgets to count the leads
SyncResolved_NoCount(status, leads) ==
  [status EXCEPT !.status = "idle", !.lastSyncAt = now]

\* the try branch after adapter.getLeads resolved with `leads`
SyncResolved(status, leads) ==
  [status EXCEPT !.leadsCount = Len(leads), !.status = "idle", !.lastSyncAt = now]

\* a catch branch that reports the lead count the account's stored record holds
SyncRejected_StoredCount(status) ==
  [status EXCEPT !.status = "error",
                 !.failedCount = IF MapHas(syncStatus, status.accountId)
                                 THEN syncStatus[status.accountId].leadsCount
                                 ELSE status.leadsCount]

\* the catch branch
SyncRejected(status) ==
  [status EXCEPT !.status = "error", !.failedCount = status.leadsCount]

\* a syncAccountLeads that stamps the last sync time on failure too
syncAccountLeadsResume_AlwaysStamps(c, response) ==
  /\ c \in DOMAIN syncCalls
  /\ syncCalls[c].pc = "getLeads"
  /\ LET call == syncCalls[c]
         fetched == getLeads(call.accountId, response)
         status == IF fetched.threw THEN SyncRejected(call.status)
                   ELSE SyncResolved(call.status, fetched.value)
     IN /\ syncStatus' = MapSet(syncStatus, call.accountId, status)
        /\ lastSyncTime' = MapSet(lastSyncTime, call.accountId, now)
        /\ syncCalls' = [syncCalls EXCEPT ![c] =
             SyncCall(call.accountId, "done", status, call.inst, fetched,
                      fetched.threw, fetched.error)]
  /\ UNCHANGED <<now, mgrVars, whVars, leadCall, adapterVars>>

\* a syncAccountLeads that updates the stored record field by field and keeps
\* the lead count the record already had
syncAccountLeadsResume_Merge(c, response) ==
  /\ c \in DOMAIN syncCalls
  /\ syncCalls[c].pc = "getLeads"
  /\ LET call == syncCalls[c]
         fetched == getLeads(call.accountId, response)
         status == IF fetched.threw THEN SyncRejected(call.status)
                   ELSE SyncResolved(call.status, fetched.value)
         merged == IF MapHas(syncStatus, call.accountId)
                     THEN [status EXCEPT !.leadsCount = syncStatus[call.accountId].leadsCount]
                     ELSE status
     IN /\ syncStatus' = MapSet(syncStatus, call.accountId, merged)
        /\ lastSyncTime' = IF fetched.threw THEN lastSyncTime
                           ELSE MapSet(lastSyncTime, call.accountId, now)
        /\ syncCalls' = [syncCalls EXCEPT ![c] =
             SyncCall(call.accountId, "done", status, call.inst, fetched,
                      fetched.threw, fetched.error)]
  /\ UNCHANGED <<now, mgrVars, whVars, leadCall, adapterVars>>

\* syncAccountLeads from the resumption of adapter.getLeads to its end
syncAccountLeadsResume(c, response) ==
  /\ c \in DOMAIN syncCalls
  /\ syncCalls[c].pc = "getLeads"
  /\ LET call == syncCalls[c]
         fetched == getLeads(call.accountId, response)
         status == IF fetched.threw THEN SyncRejected(call.status)
                   ELSE SyncResolved(call.status, fetched.value)
     IN /\ syncStatus' = MapSet(syncStatus, call.accountId, status)
        /\ lastSyncTime' = IF fetched.threw THEN lastSyncTime
                           ELSE MapSet(lastSyncTime, call.accountId, now)
        /\ syncCalls' = [syncCalls EXCEPT ![c] =
             SyncCall(call.accountId, "done", status, call.inst, fetched,
                      fetched.threw, fetched.error)]
  /\ UNCHANGED <<now, mgrVars, whVars, leadCall, adapterVars>>

\* a SyncService.syncLead call: inst is the adapter it delegated to (0 when
\* none was bound), outcome what the call resolved to or threw
LeadCall(accountId, leadId, inst, outcome) ==
  [accountId |-> accountId, leadId |-> leadId, inst |-> inst, outcome |-> outcome]

\* a syncLead that stamps the account's last sync time when it resolves
syncLead_Stamps(accountId, leadId, response) ==
  /\ leadCall' =
       IF ~MapHas(adapters, accountId)
         THEN LeadCall(accountId, leadId, 0, Reject(AdapterNotFound(accountId)))
         ELSE LeadCall(accountId, leadId, getAdapter(accountId).inst,
                       getLead(accountId, leadId, response))
  /\ lastSyncTime' =
       IF MapHas(adapters, accountId) /\ ~getLead(accountId, leadId, response).threw
         THEN MapSet(lastSyncTime, accountId, now)
         ELSE lastSyncTime
  /\ UNCHANGED <<now, mgrVars, whVars, syncStatus, syncCalls, adapterVars>>

\* SyncService.syncLead: the lookup, then adapter.syncLead, which is getLead;
\* `response` is the backend's answer to its getDeal
syncLead(accountId, leadId, response) ==
  /\ leadCall' =
       IF ~MapHas(adapters, accountId)
         THEN LeadCall(accountId, leadId, 0, Reject(AdapterNotFound(accountId)))
         ELSE LeadCall(accountId, leadId, getAdapter(accountId).inst,
                       getLead(accountId, leadId, response))
  /\ UNCHANGED <<now, mgrVars, whVars, syncStatus, lastSyncTime, syncCalls,
                 adapterVars>>

\* clearSyncStatus: deletes the account's entry from both maps
clearSyncStatus(accountId) ==
  /\ syncStatus' = MapDelete(syncStatus, accountId)
  /\ lastSyncTime' = MapDelete(lastSyncTime, accountId)
  /\ UNCHANGED <<now, mgrVars, whVars, syncCalls, leadCall, adapterVars>>

\* getSyncStatus / getLastSyncTime: what the two maps hold for the account
getSyncStatus(accountId) == {syncStatus[a] : a \in DOMAIN syncStatus \cap {accountId}}
getLastSyncTime(accountId) ==
  {lastSyncTime[a] : a \in DOMAIN lastSyncTime \cap {accountId}}

\* the default of shouldSync's intervalMinutes
IntervalMinutes == 5

\* a comparison that wants more than the interval
shouldSync_Strict(accountId, intervalMinutes) ==
  IF ~MapHas(lastSyncTime, accountId) THEN TRUE
  ELSE now - lastSyncTime[accountId] > intervalMinutes

\* shouldSync: diffMinutes is the clock difference, the clock being in minutes
shouldSync(accountId, intervalMinutes) ==
  IF ~MapHas(lastSyncTime, accountId) THEN TRUE
  ELSE now - lastSyncTime[accountId] >= intervalMinutes

-----------------------------------------------------------------------------
(* WebhookHandler *)

\* a JS value found at payload.data.id: its type and its toString()
JsValue(t, s) == [t |-> t, s |-> s]
JsUndefined == JsValue("undefined", Undefined)

\* JS truthiness of such a value
TruthyValue(v) ==
  /\ v.t # "undefined"
  /\ ~(v.t = "number" /\ v.s \in {"0", "NaN"})
  /\ ~(v.t = "string" /\ v.s = "")

SyncEventTypes == {"lead.created", "lead.updated", "lead.stage_changed"}

\* a webhook body: null/undefined, or an object with an optional event name
\* and an optional data object with an optional id
Payload(isObject, event, hasData, id) ==
  [isObject |-> isObject, event |-> event, hasData |-> hasData, id |-> id]

NullPayload == Payload(FALSE, Undefined, FALSE, JsUndefined)

WebhookPayloads ==
  {NullPayload, Payload(TRUE, Undefined, FALSE, JsUndefined),
   Payload(TRUE, "lead.stage_changed", FALSE, JsUndefined),
   Payload(TRUE, "lead.created", TRUE, JsUndefined),
   Payload(TRUE, "lead.created", TRUE, JsValue("number", "123")),
   Payload(TRUE, "lead.updated", TRUE, JsValue("number", "0")),
   Payload(TRUE, "lead.updated", TRUE, JsValue("number", "123")),
   Payload(TRUE, "lead.stage_changed", TRUE, JsValue("number", "123")),
   Payload(TRUE, "lead.deleted", TRUE, JsValue("number", "123")),
   Payload(TRUE, "updated.deal", TRUE, JsValue("number", "123"))}

\* the event names the WebhookEvent type admits
WebhookEventTypes ==
  {"lead.created", "lead.updated", "lead.deleted", "lead.stage_changed", "custom"}

\* event.data: the raw payload, or the data object the adapter parsed out
RawData(payload) == [raw |-> TRUE, payload |-> payload]
ParsedData(id) == [raw |-> FALSE, id |-> id]

\* PipedriveAdapter.parseWebhookEvent
parseWebhookEvent(payload) ==
  IF ~payload.isObject \/ ~Truthy(payload.event)
    THEN [isNull |-> TRUE, type |-> Undefined, data |-> ParsedData(JsUndefined)]
    ELSE [isNull |-> FALSE, type |-> payload.event,
          data |-> ParsedData(IF payload.hasData THEN payload.id ELSE JsUndefined)]

\* a log keyed by the account instead of the event
LogSet_ByAccount(logs, event) ==
  IF \E i \in 1..Len(logs) : logs[i].crmAccountId = event.crmAccountId
    THEN [i \in 1..Len(logs) |->
            IF logs[i].crmAccountId = event.crmAccountId THEN event ELSE logs[i]]
    ELSE Append(logs, event)

\* Map.prototype.set on the insertion-ordered webhook log, keyed by event id
LogSet(logs, event) ==
  IF \E i \in 1..Len(logs) : logs[i].id = event.id
    THEN [i \in 1..Len(logs) |-> IF logs[i].id = event.id THEN event ELSE logs[i]]
    ELSE Append(logs, event)

LogHas(logs, eventId) == \E i \in 1..Len(logs) : logs[i].id = eventId

\* getWebhookLog(eventId), for an id the log holds
getWebhookLog(eventId) ==
  webhookLogs[CHOOSE i \in 1..Len(webhookLogs) : webhookLogs[i].id = eventId]

\* whether processEvent calls syncService.syncLead for the event
CallsSyncLead(event) ==
  /\ event.type \in SyncEventTypes
  /\ ~event.data.raw
  /\ TruthyValue(event.data.id)

\* a handleWebhook call: pc is "syncLead" while it is suspended in the
\* awaited syncLead, "processEvent" while it waits for a processEvent that
\* made no backend call, and "done" once the call has ended; syncLeads lists
\* the syncService.syncLead invocations it made, parseInst is the adapter
\* that parsed the payload (0 when none was bound), thrown the exception its
\* try block caught, raised tells whether the call threw to its caller
WebhookCall(accountId, payload, event, pc, parseInst, syncLeads, thrown, raised) ==
  [accountId |-> accountId, payload |-> payload, event |-> event, pc |-> pc,
   parseInst |-> parseInst, syncLeads |-> syncLeads, thrown |-> thrown,
   raised |-> raised]

\* the early return when no adapter is bound
AdapterMissingEvent(event, accountId) ==
  [event EXCEPT !.error = "Adapter not found for account " \o ToString(accountId),
                !.processed = FALSE]

\* a parse failure that adopts the unparsed event name
ParseFailedEvent_Typed(event) ==
  [event EXCEPT !.error = "Failed to parse webhook event", !.processed = FALSE,
                !.type = Undefined]

\* the early return when the adapter could not parse the payload
ParseFailedEvent(event) ==
  [event EXCEPT !.error = "Failed to parse webhook event", !.processed = FALSE]

\* the end of the try block
ProcessedEvent(event) == [event EXCEPT !.processed = TRUE]

\* a catch block that records and rethrows
handleWebhookCatch_Rethrow(event, error) ==
  [raised |-> TRUE,
   event |-> [event EXCEPT !.error = StringOf(error), !.processed = FALSE]]

\* a catch block that records error.message instead of String(error)
handleWebhookCatch_Message(event, error) ==
  [raised |-> FALSE,
   event |-> [event EXCEPT !.error = error.message, !.processed = FALSE]]

\* the catch block: what the call hands back and whether it raises
handleWebhookCatch(event, error) ==
  [raised |-> FALSE,
   event |-> [event EXCEPT !.error = StringOf(error), !.processed = FALSE]]

\* an event whose id is derived from the account
NewEvent_IdFromAccount(accountId, payload) ==
  [id |-> accountId + 1, type |-> "custom", crmType |-> "pipedrive",
   crmAccountId |-> accountId, data |-> RawData(payload),
   timestamp |-> now, processed |-> FALSE, error |-> Undefined]

\* the WebhookEvent handleWebhook starts from: a fresh uuidv4() as its id
NewEvent(accountId, payload) ==
  [id |-> nextEventId, type |-> "custom", crmType |-> "pipedrive",
   crmAccountId |-> accountId, data |-> RawData(payload),
   timestamp |-> now, processed |-> FALSE, error |-> Undefined]

\* handleWebhook up to its first suspension point
handleWebhook(accountId, payload) ==
  /\ Len(whCalls) < MaxCalls
  /\ LET event == NewEvent(accountId, payload)
         adapter == getAdapter(accountId)
         parsedEvent == parseWebhookEvent(payload)
         parsed == [event EXCEPT !.type = parsedEvent.type,
                                 !.data = parsedEvent.data]
     IN /\ nextEventId' = nextEventId + 1
        /\ IF ~MapHas(adapters, accountId)
             THEN /\ webhookLogs' = LogSet(webhookLogs, AdapterMissingEvent(event, accountId))
                  /\ whCalls' = Append(whCalls,
                       WebhookCall(accountId, payload,
                                   AdapterMissingEvent(event, accountId),
                                   "done", 0, <<>>, NoException, FALSE))
           ELSE IF parsedEvent.isNull
             THEN /\ webhookLogs' = LogSet(webhookLogs, ParseFailedEvent(event))
                  /\ whCalls' = Append(whCalls,
                       WebhookCall(accountId, payload, ParseFailedEvent(event),
                                   "done", adapter.inst, <<>>, NoException, FALSE))
           ELSE IF CallsSyncLead(parsed)
             THEN /\ webhookLogs' = webhookLogs
                  /\ whCalls' = Append(whCalls,
                       WebhookCall(accountId, payload, parsed, "syncLead",
                                   adapter.inst,
                                   <<[accountId |-> accountId,
                                      leadId |-> parsed.data.id.s,
                                      inst |-> getAdapter(accountId).inst]>>,
                                   NoException, FALSE))
           ELSE /\ webhookLogs' = webhookLogs
                /\ whCalls' = Append(whCalls,
                     WebhookCall(accountId, payload, parsed, "processEvent",
                                 adapter.inst, <<>>, NoException, FALSE))
  /\ UNCHANGED <<now, mgrVars, syncVars, purged, adapterVars>>

\* a handler whose re-fetch looks the adapter up only after a suspension
handleWebhookResume_LateLookup(c, response) ==
  /\ c \in DOMAIN whCalls
  /\ whCalls[c].pc \in {"syncLead", "processEvent"}
  /\ LET call == whCalls[c]
         dispatch == IF call.pc = "syncLead"
                       THEN getLead(call.accountId, call.syncLeads[1].leadId, response)
                       ELSE Resolve(<<>>)
         caught == handleWebhookCatch(call.event, dispatch.error)
         event == IF dispatch.threw THEN caught.event ELSE ProcessedEvent(call.event)
         raised == IF dispatch.threw THEN caught.raised ELSE FALSE
         syncLeads == [k \in DOMAIN call.syncLeads |->
                         [call.syncLeads[k] EXCEPT !.inst = getAdapter(call.accountId).inst]]
     IN /\ webhookLogs' = LogSet(webhookLogs, event)
        /\ whCalls' = [whCalls EXCEPT ![c] =
             WebhookCall(call.accountId, call.payload, event, "done",
                         call.parseInst, syncLeads, dispatch.error, raised)]
  /\ UNCHANGED <<now, nextEventId, purged, mgrVars, syncVars, adapterVars>>

\* handleWebhook from the resumption of `await this.processEvent(...)` to
\* its end; `response` is the backend's answer to the getDeal behind syncLead
handleWebhookResume(c, response) ==
  /\ c \in DOMAIN whCalls
  /\ whCalls[c].pc \in {"syncLead", "processEvent"}
  /\ LET call == whCalls[c]
         dispatch == IF call.pc = "syncLead"
                       THEN getLead(call.accountId, call.syncLeads[1].leadId, response)
                       ELSE Resolve(<<>>)
         caught == handleWebhookCatch(call.event, dispatch.error)
         event == IF dispatch.threw THEN caught.event ELSE ProcessedEvent(call.event)
         raised == IF dispatch.threw THEN caught.raised ELSE FALSE
     IN /\ webhookLogs' = LogSet(webhookLogs, event)
        /\ whCalls' = [whCalls EXCEPT ![c] =
             WebhookCall(call.accountId, call.payload, event, "done",
                         call.parseInst, call.syncLeads, dispatch.error, raised)]
  /\ UNCHANGED <<now, nextEventId, purged, mgrVars, syncVars, adapterVars>>

\* Array.prototype.slice(start) with no end: a negative start counts from the
\* end, and -0 is 0
Slice(s, start) ==
  LET from == IF start < 0
                THEN (IF Len(s) + start > 0 THEN Len(s) + start ELSE 0)
                ELSE (IF start < Len(s) THEN start ELSE Len(s))
  IN SubSeq(s, from + 1, Len(s))

\* getWebhookLogs(limit): Array.from(this.webhookLogs.values()).slice(-limit)
getWebhookLogs(limit) == Slice(webhookLogs, 0 - limit)

MinutesPerHour == 60

\* a purge that also takes the events at the cutoff
OlderThan_Inclusive(event, cutoff) == event.timestamp <= cutoff

\* event.timestamp < cutoff
OlderThan(event, cutoff) == event.timestamp < cutoff

\* clearOldLogs(hoursOld): deletes every logged event older than the cutoff
\* and returns how many it deleted
clearOldLogs(hoursOld) ==
  /\ LET cutoff == now - hoursOld * MinutesPerHour
         kept(event) == ~OlderThan(event, cutoff)
         deletedCount == Cardinality({i \in 1..Len(webhookLogs) :
                                        OlderThan(webhookLogs[i], cutoff)})
     IN /\ webhookLogs' = SelectSeq(webhookLogs, kept)
        /\ purged' = [hoursOld |-> hoursOld, deletedCount |-> deletedCount]
  /\ UNCHANGED <<now, nextEventId, whCalls, mgrVars, syncVars, adapterVars>>

-----------------------------------------------------------------------------

Init ==
  /\ now = 0
  /\ accounts = EmptyMap
  /\ adapters = EmptyMap
  /\ nextUuid = 1
  /\ nextInst = 1
  /\ lastOp = OpResult("new", 0, Returned)
  /\ webhookLogs = <<>>
  /\ nextEventId = 1
  /\ whCalls = <<>>
  /\ syncStatus = EmptyMap
  /\ lastSyncTime = EmptyMap
  /\ syncCalls = <<>>
  /\ readCall = [method |-> "none", accountId |-> 0,
                 response |-> [success |-> FALSE, isArray |-> FALSE, data |-> <<>>],
                 outcome |-> Resolve(<<>>)]
  /\ writeCall = WriteCall("none", 0, NoLeadInput, NoSearch, NoRecord, NoRecord,
                         [success |-> FALSE, hasData |-> FALSE, data |-> GoodDeal],
                         Resolve(<<>>))
  /\ leadCall = LeadCall(0, Undefined, 0, Resolve(<<>>))
  /\ purged = [hoursOld |-> 0, deletedCount |-> 0]

\* the life of accounts in the account manager
Next ==
  \/ \E config \in ManagerConfigs : registerAccount(config)
  \/ \E accountId \in AccountIds : activateAccount(accountId)
  \/ \E accountId \in AccountIds : deactivateAccount(accountId)
  \/ \E accountId \in AccountIds : deleteAccount(accountId)
  \/ \E accountId \in AccountIds, updates \in ManagerUpdates :
       updateAccount(accountId, updates)

Spec == Init /\ [][Next]_vars

\* registration under every config, and deletion
NextRegister ==
  \/ \E config \in RegisterConfigs : registerAccount(config)
  \/ \E accountId \in AccountIds : deleteAccount(accountId)

SpecRegister == Init /\ [][NextRegister]_vars

\* PipedriveAdapter read calls against every backend answer
NextAdapter ==
  \/ \E response \in ListEnvelopes(Deals) : AdapterRead("getLeads", 1, response)
  \/ \E method \in ReadMethods \ {"getLeads"}, response \in ListEnvelopes(Items) :
       AdapterRead(method, 1, response)

SpecAdapter == Init /\ [][NextAdapter]_vars

\* the answers to the calls createLead makes for `data`: a call it does not
\* make has no answer
CreateLeadAnswers(data) ==
  {r \in [searchResponse : SearchEnvelopes, createResponse : RecordEnvelopes,
          personResponse : RecordEnvelopes] :
     /\ ~data.hasContact => r.personResponse = NoRecord
     /\ ~(data.hasContact /\ data.hasCompany) => r.searchResponse = NoSearch
     /\ getOrCreateOrganization(r.searchResponse, NoRecord) # Undefined
          \/ ~(data.hasContact /\ data.hasCompany) => r.createResponse = NoRecord}

\* PipedriveAdapter mutation calls against every backend answer
NextWrite ==
  \/ \E data \in CreateLeadInputs, dealResponse \in DealEnvelopes({GoodDeal, BadDeal}) :
       \E r \in CreateLeadAnswers(data) :
         AdapterCreateLead(1, data, r.searchResponse, r.createResponse,
                           r.personResponse, dealResponse)
  \/ \E method \in WriteMethods \ {"createLead"},
        response \in DealEnvelopes({GoodDeal, BadDeal}) :
       AdapterWrite(method, 1, response)

SpecWrite == Init /\ [][NextWrite]_vars

\* accounts that come and go while requests are in flight
LiveConfigs ==
  {[type |-> "pipedrive", displayName |-> "n1", apiToken |-> "t1",
    domain |-> d, extraConfig |-> Undefined] : d \in {Undefined, "d1"}}

LiveUpdates ==
  {[displayName |-> Undefined, apiToken |-> "t2", domain |-> Undefined,
    extraConfig |-> Undefined]}

NextAccounts ==
  \/ \E config \in LiveConfigs : registerAccount(config)
  \/ \E accountId \in AccountIds : deleteAccount(accountId)
  \/ \E accountId \in AccountIds, updates \in LiveUpdates :
       updateAccount(accountId, updates)

\* updates of every shape on accounts that are switched on and off
NextRebind ==
  \/ \E config \in LiveConfigs : registerAccount(config)
  \/ \E accountId \in AccountIds : activateAccount(accountId)
  \/ \E accountId \in AccountIds : deactivateAccount(accountId)
  \/ \E accountId \in AccountIds, updates \in UpdateShapes :
       updateAccount(accountId, updates)

SpecRebind == Init /\ [][NextRebind]_vars

\* accounts switched on and off and updated while time passes
NextClock ==
  \/ \E config \in LiveConfigs : registerAccount(config)
  \/ \E accountId \in AccountIds : activateAccount(accountId)
  \/ \E accountId \in AccountIds : deactivateAccount(accountId)
  \/ \E accountId \in AccountIds, updates \in LiveUpdates :
       updateAccount(accountId, updates)
  \/ Tick

SpecClock == Init /\ [][NextClock]_vars

\* the webhook handler over a changing account registry
NextWebhook ==
  \/ NextAccounts
  \/ \E accountId \in AccountIds, payload \in WebhookPayloads :
       handleWebhook(accountId, payload)
  \/ \E c \in 1..MaxCalls, response \in DealEnvelopes({GoodDeal, BadDeal}) :
       handleWebhookResume(c, response)

SpecWebhook == Init /\ [][NextWebhook]_vars

\* webhooks that fill the log while hours pass and purges run
LogConfigs == {config \in LiveConfigs : config.domain = "d1"}

LogPayloads ==
  {NullPayload, Payload(TRUE, "lead.updated", TRUE, JsValue("number", "123"))}

HoursOld == 0..MaxHours

ElapseSteps == {MinutesPerHour \div 2, MinutesPerHour}

NextLogs ==
  \/ \E config \in LogConfigs : registerAccount(config)
  \/ \E accountId \in AccountIds, payload \in LogPayloads :
       handleWebhook(accountId, payload)
  \/ \E c \in 1..MaxCalls, response \in DealEnvelopes({GoodDeal}) :
       handleWebhookResume(c, response)
  \/ \E hoursOld \in HoursOld : clearOldLogs(hoursOld)
  \/ \E minutes \in ElapseSteps : Elapse(minutes, MaxHours * MinutesPerHour)

SpecLogs == Init /\ [][NextLogs]_vars

\* the sync service over a changing account registry
NextSync ==
  \/ NextAccounts
  \/ \E accountId \in AccountIds : syncAccountLeads(accountId)
  \/ \E c \in 1..MaxSyncs, response \in ListEnvelopes({GoodDeal, BadDeal}) :
       syncAccountLeadsResume(c, response)
  \/ Tick

SpecSync == Init /\ [][NextSync]_vars

\* getDeals answers with one deal or with a failure
SingleEnvelopes ==
  {r \in ListEnvelopes({GoodDeal, BadDeal}) : r.isArray /\ Len(r.data) = 1}

LeadIds == {"123"}

\* bulk and single-lead syncs over a changing account registry
NextLead ==
  \/ \E config \in LiveConfigs : registerAccount(config)
  \/ \E accountId \in AccountIds : deleteAccount(accountId)
  \/ \E accountId \in AccountIds : syncAccountLeads(accountId)
  \/ \E c \in 1..MaxSyncs, response \in SingleEnvelopes :
       syncAccountLeadsResume(c, response)
  \/ \E accountId \in AccountIds, leadId \in LeadIds,
        response \in DealEnvelopes({GoodDeal}) :
       syncLead(accountId, leadId, response)

SpecLead == Init /\ [][NextLead]_vars

\* syncs that succeed or fail while minutes pass
MinuteSteps == {1, IntervalMinutes}

NextShouldSync ==
  \/ \E config \in LogConfigs : registerAccount(config)
  \/ \E accountId \in AccountIds : syncAccountLeads(accountId)
  \/ \E c \in 1..MaxSyncs, response \in SingleEnvelopes :
       syncAccountLeadsResume(c, response)
  \/ \E minutes \in MinuteSteps : Elapse(minutes, MaxMinutes)

SpecShouldSync == Init /\ [][NextShouldSync]_vars

\* syncs that succeed or fail, and records that are cleared, while time passes
NextSyncTime ==
  \/ \E config \in LogConfigs : registerAccount(config)
  \/ \E accountId \in AccountIds : syncAccountLeads(accountId)
  \/ \E c \in 1..MaxSyncs, response \in SingleEnvelopes :
       syncAccountLeadsResume(c, response)
  \/ \E accountId \in AccountIds : clearSyncStatus(accountId)
  \/ Tick

SpecSyncTime == Init /\ [][NextSyncTime]_vars

\* the ids the re-fetches name: one never issued, and the first one issued
RefetchIds == {0, 1}

\* single-lead re-fetches, direct and through webhooks, next to bulk syncs
NextRefetch ==
  \/ \E config \in LogConfigs : registerAccount(config)
  \/ \E accountId \in RefetchIds : syncAccountLeads(accountId)
  \/ \E c \in 1..MaxSyncs, response \in SingleEnvelopes :
       syncAccountLeadsResume(c, response)
  \/ \E accountId \in RefetchIds, leadId \in LeadIds,
        response \in DealEnvelopes({GoodDeal}) :
       syncLead(accountId, leadId, response)
  \/ \E accountId \in RefetchIds, payload \in LogPayloads :
       handleWebhook(accountId, payload)
  \/ \E c \in 1..MaxCalls, response \in DealEnvelopes({GoodDeal}) :
       handleWebhookResume(c, response)
  \/ Tick

SpecRefetch == Init /\ [][NextRefetch]_vars

-----------------------------------------------------------------------------
(* Claims about the account manager, checked under Spec and SpecRegister *)

\* C1: after any sequence of registerAccount (succeeding or throwing),
\* updateAccount and deleteAccount calls, an account id is in the account
\* registry if and only if it is in the adapter registry.
C1_RegistryLockstep ==
  \A a \in AccountIds : MapHas(accounts, a) <=> MapHas(adapters, a)

\* C4: the adapter bound to a registered account was constructed from exactly
\* that account's currently stored apiToken and domain.
C4_AdapterMatchesAccount ==
  \A a \in DOMAIN adapters :
    /\ MapHas(accounts, a)
    /\ adapters[a].apiToken = accounts[a].apiToken
    /\ adapters[a].companyDomain = accounts[a].domain

\* an updateAccount has just rebound an adapter to a new token and a new
\* domain
C4_Witness ==
  /\ lastOp.op = "updateAccount"
  /\ \E a \in DOMAIN adapters :
       /\ accounts[a].apiToken = "t2"
       /\ accounts[a].domain = "d2"
       /\ adapters[a].inst > 1

\* C6: registerAccount of a pipedrive config without a domain fails with
\* 'Pipedrive domain is required'; with a domain and a token it succeeds,
\* returns an active account, and the adapter bound to the returned id has
\* CRM type 'pipedrive'.
C6_DomainRequirement ==
  (lastOp.op = "registerAccount" /\ accounts[lastOp.accountId].type = "pipedrive") =>
    LET account == accounts[lastOp.accountId]
    IN IF Truthy(account.domain)
         THEN /\ ~lastOp.threw
              /\ account.isActive
              /\ MapHas(adapters, account.id)
              /\ adapters[account.id].crmType = "pipedrive"
         ELSE /\ lastOp.threw
              /\ lastOp.error = "Pipedrive domain is required"

\* both halves of C6 have happened: the last registration was refused for
\* its missing domain while an earlier one with a domain stands
C6_Witness ==
  /\ lastOp.op = "registerAccount"
  /\ lastOp.threw
  /\ accounts[lastOp.accountId].type = "pipedrive"
  /\ \E a \in DOMAIN adapters : accounts[a].type = "pipedrive"

-----------------------------------------------------------------------------
(* Claims about the webhook handler, checked under SpecWebhook *)

WebhookDone(c) == c \in DOMAIN whCalls /\ whCalls[c].pc = "done"

\* the call c ends in this step
WebhookEnds(c) ==
  /\ ~WebhookDone(c)
  /\ c \in DOMAIN whCalls'
  /\ whCalls'[c].pc = "done"

\* C2: handleWebhook never raises to its caller: whatever the account and the
\* payload, and also when the downstream syncLead throws, it returns a
\* WebhookEvent with an id.
C2_NeverRaises ==
  \A c \in DOMAIN whCalls :
    /\ ~whCalls[c].raised
    /\ whCalls[c].pc = "done" => whCalls[c].event.id \in 1..MaxCalls

\* one call ended on a missing adapter and another one after its syncLead
\* threw
C2_Witness ==
  /\ \E c \in DOMAIN whCalls : WebhookDone(c) /\ whCalls[c].parseInst = 0
  /\ \E c \in DOMAIN whCalls :
       /\ WebhookDone(c)
       /\ whCalls[c].syncLeads # <<>>
       /\ whCalls[c].thrown # NoException

\* C3: every handleWebhook call adds exactly one entry to the webhook log, on
\* every path: when it ends with event e, the log has grown by one and
\* getWebhookLog(e.id) is e; a step that ends no call leaves the log alone.
C3_OneLogEntryPerCall ==
  [][IF \E c \in 1..MaxCalls : WebhookEnds(c)
       THEN \A c \in 1..MaxCalls :
              WebhookEnds(c) =>
                /\ Len(webhookLogs') = Len(webhookLogs) + 1
                /\ Cardinality({i \in 1..Len(webhookLogs') :
                                  webhookLogs'[i].id = whCalls'[c].event.id}) = 1
                /\ \A i \in 1..Len(webhookLogs') :
                     (webhookLogs'[i].id = whCalls'[c].event.id) =>
                       (webhookLogs'[i] = whCalls'[c].event)
       ELSE webhookLogs' = webhookLogs]_vars

\* two calls to the same account have ended, one processed and one failed,
\* and the log holds both
C3_Witness ==
  /\ Len(webhookLogs) = 2
  /\ WebhookDone(1) /\ WebhookDone(2)
  /\ whCalls[1].accountId = whCalls[2].accountId
  /\ whCalls[1].event.processed /\ ~whCalls[2].event.processed

\* the id is present in the parsed data (any value but undefined)
IdPresent(event) == ~event.data.raw /\ event.data.id.t # "undefined"

\* C7: for a parsed event of type lead.created, lead.updated or
\* lead.stage_changed whose data.id is present (any value, 0 included),
\* syncLead is called exactly once with (accountId, String(data.id)) and
\* awaited before the event is marked processed; otherwise never.
C7_SyncLeadOnPresentId ==
  \A c \in DOMAIN whCalls :
    LET call == whCalls[c]
    IN IF call.event.type \in SyncEventTypes /\ IdPresent(call.event)
         THEN /\ Len(call.syncLeads) = 1
              /\ call.syncLeads[1].accountId = call.accountId
              /\ call.syncLeads[1].leadId = call.event.data.id.s
              /\ call.pc = "syncLead" => ~call.event.processed
         ELSE call.syncLeads = <<>>

\* what the handler passes through its three stages
Resolved(call) == call.parseInst # 0
Parsed(call) == ~parseWebhookEvent(call.payload).isNull

\* C8: the returned event has processed = true exactly when the adapter was
\* resolved, the payload parsed and the dispatch did not throw; in every
\* logged event processed implies no error and not processed implies an
\* error, which is String(exception) when the dispatch threw.
C8_ProcessedIffClean ==
  /\ \A c \in DOMAIN whCalls :
       whCalls[c].pc = "done" =>
         /\ whCalls[c].event.processed <=>
              (Resolved(whCalls[c]) /\ Parsed(whCalls[c])
                 /\ whCalls[c].thrown = NoException)
         /\ whCalls[c].thrown # NoException =>
              whCalls[c].event.error = StringOf(whCalls[c].thrown)
  /\ \A i \in 1..Len(webhookLogs) :
       webhookLogs[i].processed <=> webhookLogs[i].error = Undefined

\* a processed event and an event whose syncLead threw are both logged
C8_Witness ==
  /\ \E i \in 1..Len(webhookLogs) :
       webhookLogs[i].processed /\ webhookLogs[i].type = "lead.updated"
  /\ \E c \in DOMAIN whCalls :
       /\ WebhookDone(c)
       /\ whCalls[c].thrown # NoException
       /\ LogHas(webhookLogs, whCalls[c].event.id)

\* C9: when no adapter is bound, or the adapter cannot parse the payload, the
\* returned and logged event keeps type 'custom' and the raw payload, is not
\* processed, carries the matching error, and syncLead is not called.
C9_EarlyReturns ==
  \A c \in DOMAIN whCalls :
    LET call == whCalls[c]
    IN (~Resolved(call) \/ ~Parsed(call)) =>
         /\ call.pc = "done"
         /\ call.event.type = "custom"
         /\ call.event.data = RawData(call.payload)
         /\ ~call.event.processed
         /\ call.event.error =
              IF ~Resolved(call)
                THEN "Adapter not found for account " \o ToString(call.accountId)
                ELSE "Failed to parse webhook event"
         /\ call.syncLeads = <<>>
         /\ LogHas(webhookLogs, call.event.id)
         /\ getWebhookLog(call.event.id) = call.event

\* both early returns have happened: one call found no adapter, one found a
\* payload without an event name
C9_Witness ==
  /\ \E c \in DOMAIN whCalls : ~Resolved(whCalls[c])
  /\ \E c \in DOMAIN whCalls : Resolved(whCalls[c]) /\ ~Parsed(whCalls[c])

-----------------------------------------------------------------------------
(* Claims about the sync service, checked under SpecSync *)

SyncDone(c) == c \in DOMAIN syncCalls /\ syncCalls[c].pc = "done"

\* the call c ends in this step
SyncEnds(c) ==
  /\ ~SyncDone(c)
  /\ c \in DOMAIN syncCalls'
  /\ syncCalls'[c].pc = "done"

\* C5: syncAccountLeads with a bound adapter: when adapter.getLeads resolves,
\* the stored and returned SyncStatus is 'idle' with leadsCount the number of
\* leads fetched; when it throws, the stored SyncStatus is 'error' and the
\* same error is thrown to the caller.
C5_SyncStatusLifecycle ==
  [][\A c \in 1..MaxSyncs :
       (SyncEnds(c) /\ syncCalls'[c].inst # 0) =>
         LET call == syncCalls'[c]
             stored == syncStatus'[call.accountId]
         IN IF call.fetched.threw
              THEN /\ call.threw
                   /\ call.error = call.fetched.error
                   /\ stored.status = "error"
              ELSE /\ ~call.threw
                   /\ stored = call.status
                   /\ stored.status = "idle"
                   /\ stored.leadsCount = Len(call.fetched.value)]_vars

\* one sync has stored two fetched leads and another one has failed
C5_Witness ==
  /\ \E c \in DOMAIN syncCalls :
       /\ SyncDone(c) /\ ~syncCalls[c].threw
       /\ Len(syncCalls[c].fetched.value) = 2
       /\ syncCalls[c].status.leadsCount = 2
  /\ \E c \in DOMAIN syncCalls :
       /\ SyncDone(c) /\ syncCalls[c].inst # 0 /\ syncCalls[c].threw
       /\ syncStatus[syncCalls[c].accountId].status = "error"

-----------------------------------------------------------------------------
(* Claims about the adapter's read paths, checked under SpecAdapter *)

\* the backend call failed, answered with a non-success envelope, or
\* answered with a record the method cannot map
BackendFailed(call) ==
  \/ ~call.response.success
  \/ ~call.response.isArray
  \/ \E i \in 1..Len(call.response.data) :
       IF call.method = "getLeads" THEN ~DealMaps(call.response.data[i])
       ELSE ~ItemMaps(call.response.data[i])

\* C10: when the backend call underlying getLeads, getPipelines, getStages or
\* getFields fails (HTTP error, non-success envelope, or a response whose
\* records cannot be mapped), the method returns an empty list and never
\* throws.
C10_ReadResilience ==
  readCall.method \in ReadMethods =>
    /\ ~readCall.outcome.threw
    /\ BackendFailed(readCall) => readCall.outcome.value = <<>>

-----------------------------------------------------------------------------
(* Claims about the adapter's mutations, checked under SpecWrite *)

\* the deal call failed or came back with a non-success envelope
DealFailed(call) == ~call.dealResponse.success

\* the deal call came back with a deal the mapper can read
DealCreated(call) ==
  /\ call.dealResponse.success
  /\ call.dealResponse.hasData
  /\ DealMaps(call.dealResponse.data)

\* C11: createLead, updateLead, moveLead and deleteLead throw whenever the
\* deal call fails or returns a non-success envelope, and then return no
\* Lead; a failed person or organization call inside createLead does not by
\* itself make createLead throw.
C11_MutationsThrow ==
  writeCall.method \in WriteMethods =>
    /\ DealFailed(writeCall) =>
         /\ writeCall.outcome.threw
         /\ writeCall.outcome.value = <<>>
    /\ (/\ writeCall.method = "createLead"
        /\ DealCreated(writeCall)
        /\ ~(writeCall.personResponse.success /\ ~writeCall.personResponse.hasData)) =>
         /\ ~writeCall.outcome.threw
         /\ Len(writeCall.outcome.value) = 1

\* a createLead with a contact and a company whose organization and person
\* calls all failed has returned the created lead
C11_Witness ==
  /\ writeCall.method = "createLead"
  /\ writeCall.data.hasContact /\ writeCall.data.hasCompany
  /\ ~writeCall.searchResponse.success
  /\ ~writeCall.createResponse.success
  /\ ~writeCall.personResponse.success
  /\ writeCall.request.org_id = Undefined
  /\ writeCall.request.person_id = Undefined
  /\ ~writeCall.outcome.threw
  /\ Len(writeCall.outcome.value) = 1

-----------------------------------------------------------------------------
(* Claims about the sync service's lookups, checked under SpecLead *)

\* the call c starts in this step
SyncStarts(c) == c \notin DOMAIN syncCalls /\ c \in DOMAIN syncCalls'

\* C12: syncAccountLeads and syncLead throw when no adapter is bound to the
\* account id, and then record nothing: getSyncStatus(accountId) and
\* getLastSyncTime(accountId) are the same before and after the call.
C12_NotFoundRecordsNothing ==
  [][/\ \A c \in 1..MaxSyncs, accountId \in AccountIds :
          (/\ SyncStarts(c)
           /\ syncCalls'[c].accountId = accountId
           /\ ~MapHas(adapters, accountId)) =>
            /\ syncCalls'[c].pc = "done"
            /\ syncCalls'[c].threw
            /\ syncCalls'[c].error = AdapterNotFound(accountId)
            /\ getSyncStatus(accountId)' = getSyncStatus(accountId)
            /\ getLastSyncTime(accountId)' = getLastSyncTime(accountId)
     /\ \A accountId \in AccountIds, leadId \in LeadIds,
           response \in DealEnvelopes({GoodDeal}) :
          (syncLead(accountId, leadId, response) /\ ~MapHas(adapters, accountId)) =>
            /\ leadCall'.outcome.threw
            /\ leadCall'.outcome.error = AdapterNotFound(accountId)
            /\ getSyncStatus(accountId)' = getSyncStatus(accountId)
            /\ getLastSyncTime(accountId)' = getLastSyncTime(accountId)]_vars

\* an account was synced and then deleted; a bulk sync and a single-lead sync
\* of it have both thrown, and the status of the earlier sync still stands
C12_Witness ==
  /\ \E c \in DOMAIN syncCalls :
       /\ SyncDone(c) /\ syncCalls[c].threw /\ syncCalls[c].inst = 0
       /\ leadCall.accountId = syncCalls[c].accountId
       /\ getSyncStatus(syncCalls[c].accountId) # {}
       /\ getLastSyncTime(syncCalls[c].accountId) # {}
  /\ leadCall.inst = 0
  /\ leadCall.outcome.threw

-----------------------------------------------------------------------------
(* Claims about rebinding, checked under SpecRebind *)

\* the update supplies a value for the property
Supplies(value) == value # Undefined /\ value # ""

\* C13: updateAccount replaces the adapter instance bound to the account when
\* it supplies an apiToken or a domain, and the new adapter uses the new
\* value; an updateAccount that supplies neither, activateAccount and
\* deactivateAccount leave the bound adapter instance unchanged.
C13_RebindOnCredentialChange ==
  [][/\ \A a \in DOMAIN adapters, u \in UpdateShapes :
          (lastOp'.op = "updateAccount" /\ updateAccount(a, u)) =>
            IF Supplies(u.apiToken) \/ Supplies(u.domain)
              THEN /\ MapHas(adapters', a)
                   /\ adapters'[a].inst # adapters[a].inst
                   /\ Supplies(u.apiToken) => adapters'[a].apiToken = u.apiToken
                   /\ Supplies(u.domain) => adapters'[a].companyDomain = u.domain
              ELSE adapters' = adapters
     /\ \A a \in AccountIds :
          (activateAccount(a) \/ deactivateAccount(a)) => adapters' = adapters]_vars

\* a renamed, deactivated account whose adapter was rebuilt for a new domain
\* while it kept its first token
C13_Witness ==
  \E a \in DOMAIN adapters :
    /\ adapters[a].inst > 1
    /\ adapters[a].companyDomain = "d2"
    /\ adapters[a].apiToken = "t1"
    /\ accounts[a].displayName = "n2"
    /\ ~accounts[a].isActive

-----------------------------------------------------------------------------
(* Claims about the webhook log, checked under SpecLogs *)

\* C14: clearOldLogs(h) removes exactly the logged events whose timestamp is
\* strictly older than now - h hours, keeps every other event (one whose
\* timestamp equals the cutoff included), and returns the number of events
\* it removed.
C14_PurgeCorrectness ==
  [][\A h \in HoursOld :
       clearOldLogs(h) =>
         LET old == {i \in 1..Len(webhookLogs) :
                       webhookLogs[i].timestamp < now - h * MinutesPerHour}
         IN /\ \A i \in 1..Len(webhookLogs) :
                 i \in old <=> ~LogHas(webhookLogs', webhookLogs[i].id)
            /\ \A j \in 1..Len(webhookLogs') :
                 \E i \in 1..Len(webhookLogs) : webhookLogs[i] = webhookLogs'[j]
            /\ purged'.deletedCount = Cardinality(old)
            /\ purged'.deletedCount = Len(webhookLogs) - Len(webhookLogs')]_vars

\* a purge of one hour has removed one event and kept the event logged
\* exactly one hour before
C14_Witness ==
  /\ purged.hoursOld = 1
  /\ purged.deletedCount = 1
  /\ Len(webhookLogs) = 1
  /\ webhookLogs[1].timestamp = now - MinutesPerHour

Limits == 0..(MaxCalls + 1)

\* C19: for every limit >= 0, getWebhookLogs(limit) returns at most limit
\* events, and they are the last min(limit, log size) events inserted into
\* the log, in insertion order.
C19_LastLimitEvents ==
  \A limit \in Limits :
    LET n == Len(webhookLogs)
        k == IF limit < n THEN limit ELSE n
    IN /\ Len(getWebhookLogs(limit)) <= limit
       /\ getWebhookLogs(limit) = SubSeq(webhookLogs, n - k + 1, n)

-----------------------------------------------------------------------------
(* Claims about event ids, checked under SpecWebhook *)

\* C15: event ids are unique: any two handleWebhook calls, two consecutive
\* calls with identical payloads to the same account included, produce events
\* with different ids, so no call overwrites the log entry of an earlier call.
C15_UniqueEventIds ==
  /\ \A c, d \in DOMAIN whCalls :
       c # d => whCalls[c].event.id # whCalls[d].event.id
  /\ \A c \in DOMAIN whCalls :
       WebhookDone(c) =>
         /\ LogHas(webhookLogs, whCalls[c].event.id)
         /\ getWebhookLog(whCalls[c].event.id) = whCalls[c].event

\* two calls with the same payload to the same registered account have ended
\* and the log holds an entry for each
C15_Witness ==
  /\ WebhookDone(1) /\ WebhookDone(2)
  /\ whCalls[1].accountId = whCalls[2].accountId
  /\ whCalls[1].payload = whCalls[2].payload
  /\ Resolved(whCalls[1]) /\ Resolved(whCalls[2])
  /\ Len(webhookLogs) = 2
  /\ webhookLogs[1].id # webhookLogs[2].id

-----------------------------------------------------------------------------
(* Claims about the account's flag and stamps, checked under SpecClock *)

\* C16: for a registered account, deactivateAccount followed by
\* activateAccount restores isActive = true, and across any sequence of
\* activateAccount, deactivateAccount and updateAccount calls the account's
\* updatedAt never decreases and createdAt never changes.
C16_ActivationAndStamps ==
  [][\A a \in AccountIds :
       /\ (MapHas(accounts, a) /\ activateAccount(a)) => accounts'[a].isActive
       /\ (MapHas(accounts, a) /\ MapHas(accounts', a)) =>
            /\ accounts'[a].updatedAt >= accounts[a].updatedAt
            /\ accounts'[a].createdAt = accounts[a].createdAt]_vars

\* an account registered at minute 0 has been stamped again later and its
\* last call, an activateAccount, has left it active next to an inactive one
C16_Witness ==
  /\ lastOp.op = "activateAccount"
  /\ \E a \in DOMAIN accounts :
       /\ accounts[a].isActive
       /\ accounts[a].createdAt = 0
       /\ accounts[a].updatedAt = now
       /\ now > 0
  /\ \E a \in DOMAIN accounts : ~accounts[a].isActive

-----------------------------------------------------------------------------
(* Claims about the types without an adapter, checked under SpecRegister *)

\* C17: registerAccount with type 'hubspot' fails with 'HubSpot adapter not
\* yet implemented', with type 'salesforce' fails with 'Salesforce adapter not
\* yet implemented', and with any other non-pipedrive type fails with an
\* unsupported-type error; none of these calls returns an account.
C17_UnsupportedTypes ==
  (lastOp.op = "registerAccount" /\ accounts[lastOp.accountId].type # "pipedrive") =>
    LET type == accounts[lastOp.accountId].type
    IN /\ lastOp.threw
       /\ lastOp.error =
            CASE type = "hubspot" -> "HubSpot adapter not yet implemented"
              [] type = "salesforce" -> "Salesforce adapter not yet implemented"
              [] OTHER -> "Unsupported CRM type: " \o type
       /\ ~MapHas(adapters, lastOp.accountId)

\* a registration of an unknown type has just been refused after one of a
\* type whose adapter is still to come
C17_Witness ==
  /\ lastOp.op = "registerAccount"
  /\ lastOp.threw
  /\ lastOp.error = "Unsupported CRM type: zoho"
  /\ \E a \in DOMAIN accounts : accounts[a].type \in {"hubspot", "salesforce"}

-----------------------------------------------------------------------------
(* Claims about the sync interval, checked under SpecShouldSync *)

Intervals == {0, 1, IntervalMinutes, IntervalMinutes + 1}

\* the syncAccountLeads calls for the account that have ended without throwing
SuccessfulSyncs(accountId) ==
  {c \in DOMAIN syncCalls :
     /\ SyncDone(c) /\ ~syncCalls[c].threw
     /\ syncCalls[c].accountId = accountId}

\* C18: shouldSync(accountId, intervalMinutes) is true when the account has no
\* recorded last sync time, and otherwise true if and only if the time since
\* the last successful sync is at least intervalMinutes minutes; right after a
\* successful syncAccountLeads shouldSync(id, 5) is false, and it is true
\* once more than 5 minutes have passed.
C18_ShouldSyncInterval ==
  \A a \in AccountIds, i \in Intervals :
    /\ getLastSyncTime(a) = {} <=> SuccessfulSyncs(a) = {}
    /\ shouldSync(a, i) <=>
         \A c \in SuccessfulSyncs(a) : now - syncCalls[c].status.lastSyncAt >= i

\* an account was synced exactly five minutes ago and a later sync of it
\* failed: it is due for the interval of 5 and not yet for the interval of 6
C18_Witness ==
  \E a \in DOMAIN lastSyncTime :
    /\ now - lastSyncTime[a] = IntervalMinutes
    /\ shouldSync(a, IntervalMinutes)
    /\ ~shouldSync(a, IntervalMinutes + 1)
    /\ \E c \in DOMAIN syncCalls :
         /\ SyncDone(c) /\ syncCalls[c].threw /\ syncCalls[c].inst # 0
         /\ syncCalls[c].accountId = a

-----------------------------------------------------------------------------
(* Claims about the account listings, checked under Spec *)

\* the ids of the accounts in a listing
IdsOf(listing) == {acc.id : acc \in listing}

\* C20: in every reachable state getActiveAccounts() is exactly the set of
\* accounts in getAllAccounts() whose isActive flag is true: a deactivated
\* account is absent from getActiveAccounts() but still present in
\* getAllAccounts(), and it disappears from both only on deleteAccount.
C20_ActiveAccountsListing ==
  /\ [](/\ getActiveAccounts \subseteq getAllAccounts
        /\ \A a \in AccountIds :
             a \in IdsOf(getActiveAccounts) <=>
               (MapHas(accounts, a) /\ accounts[a].isActive))
  /\ [][\A a \in AccountIds :
          /\ (MapHas(accounts, a) /\ deactivateAccount(a)) =>
               /\ a \notin IdsOf(getActiveAccounts')
               /\ a \in IdsOf(getAllAccounts')
          /\ (a \in IdsOf(getAllAccounts) /\ a \notin IdsOf(getAllAccounts')) =>
               deleteAccount(a)]_vars

\* a deactivateAccount has just taken one of two accounts out of the active
\* listing
C20_Witness ==
  /\ lastOp.op = "deactivateAccount"
  /\ Cardinality(getAllAccounts) = 2
  /\ Cardinality(getActiveAccounts) = 1

\* C21: activateAccount, deactivateAccount, updateAccount and deleteAccount
\* called with an id that is not registered return without throwing and leave
\* the account registry and the adapter registry as they were; updateAccount
\* makes no account and no adapter for such an id.
C21_UnknownIdNoOp ==
  [][\A accountId \in AccountIds :
       (/\ ~MapHas(accounts, accountId)
        /\ \/ activateAccount(accountId)
           \/ deactivateAccount(accountId)
           \/ deleteAccount(accountId)
           \/ \E updates \in ManagerUpdates : updateAccount(accountId, updates))
       => /\ accounts' = accounts
          /\ adapters' = adapters
          /\ nextInst' = nextInst
          /\ ~lastOp'.threw]_vars

\* an updateAccount ran against a manager whose accounts had all been deleted
C21_Witness ==
  /\ lastOp.op = "updateAccount"
  /\ ~lastOp.threw
  /\ DOMAIN accounts = {}
  /\ DOMAIN adapters = {}
  /\ nextUuid > 1

\* the Pipedrive body {event: 'updated.deal', data: {id: 123}}
UpdatedDeal == Payload(TRUE, "updated.deal", TRUE, JsValue("number", "123"))

\* C22: for an account bound to the Pipedrive adapter, handleWebhook with
\* the body {event: 'updated.deal', data: {id: 123}} yields an event of type
\* 'lead.updated' and calls syncLead with (accountId, '123'); when that
\* re-fetch does not throw the event ends processed and without error.
C22_UpdatedDealIsLeadUpdated ==
  \A c \in DOMAIN whCalls :
    LET call == whCalls[c]
    IN (call.payload = UpdatedDeal /\ Resolved(call)) =>
         /\ call.event.type = "lead.updated"
         /\ Len(call.syncLeads) = 1
         /\ call.syncLeads[1].accountId = call.accountId
         /\ call.syncLeads[1].leadId = "123"
         /\ (call.pc = "done" /\ call.thrown = NoException) =>
              (call.event.processed /\ call.event.error = Undefined)

\* C23: every event in the webhook log has a type among lead.created,
\* lead.updated, lead.deleted, lead.stage_changed and custom, whatever
\* payload the adapter's parseWebhookEvent accepted.
C23_LoggedTypesClassified ==
  \A i \in 1..Len(webhookLogs) : webhookLogs[i].type \in WebhookEventTypes

\* C24: the recorded status of an account follows idle -> syncing -> {idle,
\* error}: a syncAccountLeads call with a bound adapter records 'syncing' when
\* it starts its fetch and 'idle' or 'error' when the fetch ends, and every
\* recorded status has pendingCount 0.
C24_StatusStateMachine ==
  [][/\ \A c \in 1..MaxSyncs :
          (SyncStarts(c) /\ syncCalls'[c].inst # 0) =>
            /\ MapHas(syncStatus', syncCalls'[c].accountId)
            /\ syncStatus'[syncCalls'[c].accountId].status = "syncing"
     /\ \A c \in 1..MaxSyncs :
          (SyncEnds(c) /\ syncCalls'[c].inst # 0) =>
            syncStatus'[syncCalls'[c].accountId].status \in {"idle", "error"}
     /\ \A a \in DOMAIN syncStatus' : syncStatus'[a].pendingCount = 0]_vars

\* the call c ends in this step because its adapter threw
SyncFails(c) ==
  /\ SyncEnds(c)
  /\ syncCalls'[c].inst # 0
  /\ syncCalls'[c].fetched.threw

\* C25 as stated: when syncAccountLeads fails because the adapter throws, the
\* recorded failedCount is the leadsCount the account's record held before
\* the failed attempt.
C25_FailedCountIsPreviousLeadsCount ==
  [][\A c \in 1..MaxSyncs :
       (SyncFails(c) /\ MapHas(syncStatus, syncCalls'[c].accountId)) =>
         syncStatus'[syncCalls'[c].accountId].failedCount
           = syncStatus[syncCalls'[c].accountId].leadsCount]_vars

\* C25, amended: when syncAccountLeads fails because the adapter throws, the
\* recorded failedCount is the leadsCount of the call's own status object,
\* which is still 0: the record has failedCount 0 and leadsCount 0 whatever
\* the account's previous sync counted.
C25_FailedCountIsZero ==
  [][\A c \in 1..MaxSyncs :
       SyncFails(c) =>
         LET stored == syncStatus'[syncCalls'[c].accountId]
         IN /\ stored = syncCalls'[c].status
            /\ stored.failedCount = 0
            /\ stored.leadsCount = 0]_vars

\* a sync that fetched leads was followed by a failed sync of the same account,
\* whose record stands with failedCount 0
C25_Witness ==
  \E c, d \in DOMAIN syncCalls :
    /\ SyncDone(c) /\ ~syncCalls[c].threw /\ syncCalls[c].status.leadsCount >= 1
    /\ SyncDone(d) /\ syncCalls[d].inst # 0 /\ syncCalls[d].threw
    /\ syncCalls[d].accountId = syncCalls[c].accountId
    /\ syncStatus[syncCalls[d].accountId] = syncCalls[d].status
    /\ syncStatus[syncCalls[d].accountId].failedCount = 0

-----------------------------------------------------------------------------
(* Claims about single-lead re-fetches, checked under SpecRefetch *)

\* C26: SyncService.syncLead keeps no books: whether the adapter's syncLead
\* resolves or throws, and whether it was called directly or by handleWebhook,
\* getSyncStatus, getLastSyncTime and shouldSync give for every account what
\* they gave before the call.
C26_SyncLeadKeepsNoBooks ==
  [][(leadCall' # leadCall \/ whCalls' # whCalls) =>
       \A accountId \in AccountIds :
         /\ getSyncStatus(accountId)' = getSyncStatus(accountId)
         /\ getLastSyncTime(accountId)' = getLastSyncTime(accountId)
         /\ \A intervalMinutes \in Intervals :
              shouldSync(accountId, intervalMinutes)'
                = shouldSync(accountId, intervalMinutes)]_vars

\* an account that was synced has since had a lead re-fetched by a webhook and
\* by a direct syncLead, and shouldSync still answers from the bulk sync
C26_Witness ==
  \E c \in DOMAIN whCalls :
    LET call == whCalls[c]
    IN /\ WebhookDone(c) /\ Len(call.syncLeads) = 1 /\ call.event.processed
       /\ leadCall.accountId = call.accountId
       /\ leadCall.inst # 0 /\ ~leadCall.outcome.threw
       /\ MapHas(syncStatus, call.accountId)
       /\ MapHas(lastSyncTime, call.accountId)
       /\ call.event.timestamp > lastSyncTime[call.accountId]
       /\ ~shouldSync(call.accountId, IntervalMinutes)

-----------------------------------------------------------------------------
(* Claims about failed registrations, checked under SpecRegister *)

\* C27: a registerAccount call that throws leaves the manager as it was:
\* getAllAccounts() and getActiveAccounts() list the same accounts before and
\* after the failed call, and no adapter is added.
C27_FailedRegisterChangesNothing ==
  [][(nextUuid' # nextUuid /\ lastOp'.op = "registerAccount" /\ lastOp'.threw) =>
       /\ getAllAccounts' = getAllAccounts
       /\ getActiveAccounts' = getActiveAccounts
       /\ adapters' = adapters]_vars

-----------------------------------------------------------------------------
(* Claims about the last-sync-time record, checked under SpecSyncTime *)

\* C28: a syncAccountLeads that fails because the adapter throws overwrites
\* the account's SyncStatus and leaves its last sync time alone, so shouldSync
\* answers after the failure what it answered before it; getLastSyncTime of an
\* account changes only in a step where a syncAccountLeads of that account
\* succeeds or clearSyncStatus is called for it.
C28_LastSyncTimeWriters ==
  [][\A accountId \in AccountIds :
       /\ getLastSyncTime(accountId)' # getLastSyncTime(accountId) =>
            \/ clearSyncStatus(accountId)
            \/ \E c \in 1..MaxSyncs :
                 /\ SyncEnds(c)
                 /\ syncCalls'[c].accountId = accountId
                 /\ ~syncCalls'[c].threw
       /\ \A c \in 1..MaxSyncs :
            (SyncFails(c) /\ syncCalls'[c].accountId = accountId) =>
              /\ syncStatus'[accountId] = syncCalls'[c].status
              /\ syncStatus'[accountId].status = "error"
              /\ getLastSyncTime(accountId)' = getLastSyncTime(accountId)
              /\ \A intervalMinutes \in Intervals :
                   shouldSync(accountId, intervalMinutes)'
                     = shouldSync(accountId, intervalMinutes)]_vars

\* a sync succeeded at minute 0 and a later attempt, started at minute 1,
\* failed: the failure is the stored status, the stamp is still minute 0
C28_Witness ==
  \E d \in DOMAIN syncCalls :
    LET call == syncCalls[d]
    IN /\ SyncDone(d) /\ call.inst # 0 /\ call.threw
       /\ call.status.lastSyncAt = 1
       /\ getSyncStatus(call.accountId) = {call.status}
       /\ getLastSyncTime(call.accountId) = {0}
       /\ shouldSync(call.accountId, 1)
       /\ ~shouldSync(call.accountId, IntervalMinutes)

-----------------------------------------------------------------------------
(* Claims about webhooks racing with account changes, checked under SpecWebhook *)

\* C29: within one handleWebhook call the adapter that parses the payload and
\* the adapter syncService.syncLead re-fetches from are the same instance,
\* whatever updateAccount and deleteAccount do to the account while the call
\* is in flight; the call logs nothing while in flight and ends with exactly
\* one logged event, the one it returns.
C29_OneAdapterPerCall ==
  \A c \in DOMAIN whCalls :
    LET call == whCalls[c]
        logged == {i \in 1..Len(webhookLogs) : webhookLogs[i].id = call.event.id}
    IN /\ \A k \in 1..Len(call.syncLeads) :
            /\ call.parseInst # 0
            /\ call.syncLeads[k].inst = call.parseInst
       /\ IF call.pc = "done"
            THEN /\ Cardinality(logged) = 1
                 /\ \A i \in logged : webhookLogs[i] = call.event
            ELSE logged = {}

\* the first call parsed and re-fetched with one adapter; the account was
\* rebound before the second call started, and the second call ended before
\* the first one did, so the rebind fell inside the first call's flight
C29_Witness ==
  /\ WebhookDone(1) /\ WebhookDone(2)
  /\ whCalls[1].accountId = whCalls[2].accountId
  /\ Len(whCalls[1].syncLeads) = 1
  /\ whCalls[1].syncLeads[1].inst = whCalls[1].parseInst
  /\ whCalls[2].parseInst > whCalls[1].parseInst
  /\ Len(webhookLogs) = 2
  /\ webhookLogs[1] = whCalls[2].event
  /\ webhookLogs[2] = whCalls[1].event

-----------------------------------------------------------------------------
(* Claims about overlapping syncs, checked under SpecSync *)

\* the call c ends its fetch in this step
FetchEnds(c) == SyncEnds(c) /\ syncCalls'[c].inst # 0

\* C30: when syncAccountLeads calls for one account overlap, the stored
\* SyncStatus is always the whole record of the call whose fetch ended last:
\* the step that ends a fetch stores that call's record as it is, under the
\* account's own key, and changes no other record; no other step writes.
C30_LastFetchWins ==
  [][IF \E c \in 1..MaxSyncs : FetchEnds(c)
       THEN \A c \in 1..MaxSyncs :
              FetchEnds(c) =>
                LET call == syncCalls'[c]
                IN /\ syncStatus'[call.accountId] = call.status
                   /\ call.status.accountId = call.accountId
                   /\ DOMAIN syncStatus' = DOMAIN syncStatus \cup {call.accountId}
                   /\ \A a \in DOMAIN syncStatus \ {call.accountId} :
                        syncStatus'[a] = syncStatus[a]
       ELSE syncStatus' = syncStatus]_vars

\* two syncs of one account overlapped: the first started no later than the
\* second and ended a minute after it, with a different lead count, and its
\* record is the stored one
C30_Witness ==
  /\ SyncDone(1) /\ SyncDone(2)
  /\ syncCalls[1].accountId = syncCalls[2].accountId
  /\ syncCalls[1].inst # 0 /\ syncCalls[2].inst # 0
  /\ ~syncCalls[1].threw /\ ~syncCalls[2].threw
  /\ syncCalls[1].status.lastSyncAt = 1
  /\ syncCalls[2].status.lastSyncAt = 0
  /\ syncCalls[1].status.leadsCount # syncCalls[2].status.leadsCount
  /\ getSyncStatus(syncCalls[1].accountId) = {syncCalls[1].status}

====
